---- MODULE Spec2Model ----
(***************************************************************************)
(* Model of the REST query builder (app/database.py), of the service      *)
(* layer that drives it (app/services/profile_service.py,                  *)
(* app/services/auth_service.py) and of the auth routes with their token   *)
(* handling (app/routes/auth.py, app/auth/dependencies.py,                 *)
(* app/auth/jwt_handler.py).                                               *)
(*                                                                         *)
(* Python values are represented as follows.                               *)
(*   str             a TLA+ string, built with \o and ToString             *)
(*   dict            a function whose DOMAIN is the set of keys            *)
(*   list            a sequence                                            *)
(*   Optional[T]     <<>> for None, <<v>> for the value v                  *)
(*   header value    received header values are sequences of one-character *)
(*                   strings, so that split("/") and int() can be computed *)
(***************************************************************************)
EXTENDS Integers, Sequences, FiniteSets, TLC

VARIABLES
    op,        \* the call in progress: a service method, "chain", or "idle"
    args,      \* the arguments of the call in progress
    q,         \* the TableQuery being built or executed
    pc,        \* "idle", "build" (builder in hand), "wait" (request sent), "done"
    wire,      \* the HTTP requests sent during the call in progress, in order
    attempts,  \* requests attempted by the current execute() call
    resp,      \* the HTTP response to the last request, <<>> when none was obtained
    out,       \* the outcome of the last execute(): envelope or raised error
    locals,    \* envelopes of the earlier execute() calls of the call in progress
    ret,       \* what the call in progress returned or raised
    hist,      \* builder calls made on q since it was created (history variable)
    heap,      \* the dict objects by reference: the client's headers, each builder's dicts
    builders,  \* the TableQuery object each of two callers holds, <<>> when none
    alone,     \* what each caller's builder would be had it been built alone (history)
    sent,      \* the request each caller's execute() issued, <<>> when none
    users,     \* the users table at the backend: its rows and its constraints
    handlers,  \* the route or service call each request handler is running
    tokens     \* the access tokens login has handed out

serviceVars == <<op, args, q, pc, wire, attempts, resp, out, locals, ret, hist>>

sharedVars == <<heap, builders, alone, sent>>

authVars == <<users, handlers, tokens>>

vars == <<serviceVars, sharedVars, authVars>>

-----------------------------------------------------------------------------
(* Bounds of the model *)

MaxPage == 3
MaxLimit == 3
MaxRows == 2
MaxUsers == 3

-----------------------------------------------------------------------------
(* Python helpers *)

None == <<>>
Some(v) == <<v>>

EmptyDict == [k \in {} |-> ""]

\* d[k] = v
Put(d, k, v) == [x \in (DOMAIN d) \cup {k} |-> IF x = k THEN v ELSE d[x]]

\* d.get(k): Optional
Get(d, k) == IF k \in DOMAIN d THEN Some(d[k]) ELSE None

-----------------------------------------------------------------------------
(* Configuration (app.config settings) *)

SupabaseUrl == "https://db.example"
SupabaseKey == "service-key"

\* SupabaseClient.__init__
ClientBaseUrl == SupabaseUrl \o "/rest/v1"

ClientHeaders ==
    [h \in {"apikey", "Authorization", "Content-Type"} |->
        CASE h = "apikey" -> SupabaseKey
          [] h = "Authorization" -> "Bearer " \o SupabaseKey
          [] h = "Content-Type" -> "application/json"]

-----------------------------------------------------------------------------
(* TableQuery: the builder *)

\* TableQuery.__init__, reached through SupabaseClient.from_
From(table) ==
    [ base_url     |-> ClientBaseUrl \o "/" \o table,
      headers      |-> ClientHeaders,
      query_params |-> EmptyDict,
      method       |-> "GET",
      body         |-> None ]

\* select(columns, count): count is Optional[str]
Select(b, columns, count) ==
    [b EXCEPT !.query_params = Put(@, "select", columns),
              !.headers = IF count # None /\ count[1] # ""
                          THEN Put(@, "Prefer", "count=" \o count[1])
                          ELSE @]

\* eq keeping the predicate a column already has
EqKeepFirst(b, column, value) ==
    [b EXCEPT !.query_params = IF column \in DOMAIN @ THEN @
                               ELSE Put(@, column, "eq." \o value)]

\* eq(column, value); value stands for f"{value}", the text of the value
Eq(b, column, value) ==
    [b EXCEPT !.query_params = Put(@, column, "eq." \o value)]

Neq(b, column, value) ==
    [b EXCEPT !.query_params = Put(@, column, "neq." \o value)]

Ilike(b, column, pattern) ==
    [b EXCEPT !.query_params = Put(@, column, "ilike." \o pattern)]

\* or_ starting a new parameter mapping
OrAlone(b, conditions) ==
    [b EXCEPT !.query_params = Put(EmptyDict, "or", "(" \o conditions \o ")")]

Or(b, conditions) ==
    [b EXCEPT !.query_params = Put(@, "or", "(" \o conditions \o ")")]

Order(b, column, desc) ==
    LET direction == IF desc THEN "desc" ELSE "asc"
    IN  [b EXCEPT !.query_params = Put(@, "order", column \o "." \o direction)]

Limit(b, count) ==
    [b EXCEPT !.query_params = Put(@, "limit", ToString(count))]

\* range written as offset and limit query parameters
RangeAsParams(b, start, end) ==
    [b EXCEPT !.query_params =
        Put(Put(@, "offset", ToString(start)), "limit", ToString(end - start + 1))]

Range(b, start, end) ==
    [b EXCEPT !.headers = Put(@, "Range", ToString(start) \o "-" \o ToString(end))]

Insert(b, data) ==
    [b EXCEPT !.method = "POST",
              !.body = Some(data),
              !.headers = Put(@, "Prefer", "return=representation")]

Update(b, data) ==
    [b EXCEPT !.method = "PATCH",
              !.body = Some(data),
              !.headers = Put(@, "Prefer", "return=representation")]

Delete(b) ==
    [b EXCEPT !.method = "DELETE",
              !.headers = Put(@, "Prefer", "return=representation")]

-----------------------------------------------------------------------------
(* TableQuery objects by reference: the dicts of two builders and of db_client *)

Callers == {1, 2}

\* references to dict objects: the client's headers, each caller's builder's
\* headers and query_params
ClientRef == "client.headers"
HeadersRef(i) == "headers" \o ToString(i)
ParamsRef(i) == "query_params" \o ToString(i)
Refs == {ClientRef} \cup {HeadersRef(i) : i \in Callers} \cup {ParamsRef(i) : i \in Callers}

\* SupabaseClient.__init__: only the client's headers exist
ClientHeap == [r \in Refs |-> IF r = ClientRef THEN ClientHeaders ELSE EmptyDict]

\* TableQuery.__init__ keeping the dict it is given instead of copying it
TableQueryInitShared(h, i, base_url, headers, table) ==
    [ heap |-> [h EXCEPT ![ParamsRef(i)] = EmptyDict],
      self |-> [ base_url     |-> base_url \o "/" \o table,
                 headers      |-> headers,
                 query_params |-> ParamsRef(i),
                 method       |-> "GET",
                 body         |-> None ] ]

\* TableQuery.__init__(base_url, headers, table) for caller i on heap h:
\* headers is a reference, self.headers a new dict holding a copy of it
TableQueryInit(h, i, base_url, headers, table) ==
    [ heap |-> [h EXCEPT ![HeadersRef(i)] = h[headers],
                         ![ParamsRef(i)] = EmptyDict],
      self |-> [ base_url     |-> base_url \o "/" \o table,
                 headers      |-> HeadersRef(i),
                 query_params |-> ParamsRef(i),
                 method       |-> "GET",
                 body         |-> None ] ]

\* the builder self with its dicts read from heap h
Deref(h, self) ==
    [self EXCEPT !.headers = h[@], !.query_params = h[@]]

\* builder calls mutate self's dicts in place: heap h after a call that made b
\* of Deref(h, self)
Mutated(h, self, b) ==
    [h EXCEPT ![self.headers] = b.headers, ![self.query_params] = b.query_params]

\* no caller holds a builder
SharedIdle ==
    /\ heap = ClientHeap
    /\ builders = [i \in Callers |-> None]
    /\ alone = [i \in Callers |-> None]
    /\ sent = [i \in Callers |-> None]

-----------------------------------------------------------------------------
(* Text helpers for received header values (sequences of characters) *)

DigitChars == <<"0", "1", "2", "3", "4", "5", "6", "7", "8", "9">>

IsDigit(c) == \E i \in 1..Len(DigitChars) : DigitChars[i] = c

DigitVal(c) == (CHOOSE i \in 1..Len(DigitChars) : DigitChars[i] = c) - 1

\* s.split("/")[-1]: what follows the last "/", the whole of s when it has none
RECURSIVE LastSegment(_)
LastSegment(s) ==
    IF s = <<>> THEN <<>>
    ELSE IF s[Len(s)] = "/" THEN <<>>
    ELSE LastSegment(SubSeq(s, 1, Len(s) - 1)) \o <<s[Len(s)]>>

AllDigits(s) == Len(s) > 0 /\ \A i \in 1..Len(s) : IsDigit(s[i])

\* whether int(s) returns: an optional sign followed by decimal digits
IsInt(s) ==
    IF s # <<>> /\ s[1] \in {"+", "-"} THEN AllDigits(Tail(s)) ELSE AllDigits(s)

RECURSIVE NatOf(_)
NatOf(s) ==
    IF s = <<>> THEN 0
    ELSE 10 * NatOf(SubSeq(s, 1, Len(s) - 1)) + DigitVal(s[Len(s)])

\* int(s), for s with IsInt(s)
IntOf(s) ==
    IF s[1] = "-" THEN 0 - NatOf(Tail(s))
    ELSE IF s[1] = "+" THEN NatOf(Tail(s))
    ELSE NatOf(s)

-----------------------------------------------------------------------------
(* Rows and JSON bodies *)

Row(i) == [id |-> "p" \o ToString(i)]

Rows(k) == [i \in 1..k |-> Row(i)]

RowLists == {Rows(k) : k \in 0..MaxRows}

\* the columns of a row in the order of its JSON text; a profiles row of the
\* model has the first only
RowKeys == <<"id", "name", "email", "password_hash", "role", "is_active", "last_login">>

\* the JSON text of the value v of column k; a null last_login is held as ""
JsonValue(k, v) ==
    IF k = "is_active" THEN (IF v THEN "true" ELSE "false")
    ELSE IF k = "last_login" /\ v = "" THEN "null"
    ELSE v

RECURSIVE JsonFields(_, _)
JsonFields(row, keys) ==
    IF keys = <<>> THEN ""
    ELSE LET k == Head(keys)
             rest == JsonFields(row, Tail(keys))
         IN  IF k \notin DOMAIN row THEN rest
             ELSE k \o ":" \o JsonValue(k, row[k])
                    \o (IF rest = "" THEN "" ELSE "," \o rest)

JsonRow(row) == "{" \o JsonFields(row, RowKeys) \o "}"

RECURSIVE JsonItems(_)
JsonItems(rows) ==
    IF rows = <<>> THEN ""
    ELSE IF Len(rows) = 1 THEN JsonRow(rows[1])
    ELSE JsonRow(rows[1]) \o "," \o JsonItems(Tail(rows))

\* the JSON text of a list of rows
JsonText(rows) == "[" \o JsonItems(rows) \o "]"

\* the select lists the services send
AllColumns == "*"
IdColumn == "id"
UserListColumns == "id, name, email, role, is_active, is_verified, created_at, last_login"

\* the columns a select list names (is_verified and created_at are not held)
ColumnsOf(select) ==
    IF select = IdColumn THEN {"id"}
    ELSE IF select = UserListColumns
    THEN {"id", "name", "email", "role", "is_active", "last_login"}
    ELSE {RowKeys[n] : n \in 1..Len(RowKeys)}

\* the row cut down to the columns of the select list
Project(row, select) ==
    [k \in DOMAIN row \cap ColumnsOf(select) |-> row[k]]

RECURSIVE SubLists(_)
SubLists(rows) ==
    IF rows = <<>> THEN {<<>>}
    ELSE LET rest == SubLists(Tail(rows))
         IN  rest \cup {<<Head(rows)>> \o r : r \in rest}

Reverse(rows) == [n \in 1..Len(rows) |-> rows[Len(rows) + 1 - n]]

\* the row arrays the users table can be answered with: rows of the table in
\* either order, under one of the select lists
UserDocs ==
    { [n \in 1..Len(l) |-> Project(l[n], select)] :
        l \in SubLists(users.rows) \cup SubLists(Reverse(users.rows)),
        select \in {AllColumns, IdColumn, UserListColumns} }

\* the row arrays a response body can hold
JsonDocs == RowLists \cup UserDocs

IsJson(text) == \E rows \in JsonDocs : JsonText(rows) = text

\* response.json() on the text of a row array
Json(text) == CHOOSE rows \in JsonDocs : JsonText(rows) = text

-----------------------------------------------------------------------------
(* TableQuery.execute *)

\* Dispatch passing the staged body on every verb but GET
DispatchBodyOnDelete(b) ==
    LET req(verb, json) ==
            [ verb    |-> verb,
              url     |-> b.base_url,
              headers |-> b.headers,
              params  |-> b.query_params,
              json    |-> json ]
    IN  IF b.method = "GET" THEN <<req("GET", None)>>
        ELSE <<req(b.method, b.body)>>

\* the request issued for the builder's method (one branch of the if/elif chain)
Dispatch(b) ==
    LET req(verb, json) ==
            [ verb    |-> verb,
              url     |-> b.base_url,
              headers |-> b.headers,
              params  |-> b.query_params,
              json    |-> json ]
    IN  IF b.method = "GET" THEN <<req("GET", None)>>
        ELSE IF b.method = "POST" THEN <<req("POST", b.body)>>
        ELSE IF b.method = "PATCH" THEN <<req("PATCH", b.body)>>
        ELSE IF b.method = "DELETE" THEN <<req("DELETE", None)>>
        ELSE <<>>

\* raise Exception(f"Database error: {status} - {text}")
DatabaseError(r) ==
    [ kind    |-> "raised",
      type    |-> "Exception",
      message |-> "Database error: " \o ToString(r.status) \o " - " \o r.text ]

\* CountOf with the fallback of the except branch lost: a malformed total gives None
CountOfNoFallback(r, data) ==
    LET content_range == Get(r.headers, "content-range")
    IN  IF content_range # None /\ content_range[1] # <<>>
             /\ IsInt(LastSegment(content_range[1]))
        THEN Some(IntOf(LastSegment(content_range[1])))
        ELSE None

\* CountOf falling back to len(data) also when there is no header
CountOfAlways(r, data) ==
    LET content_range == Get(r.headers, "content-range")
    IN  IF content_range # None /\ content_range[1] # <<>>
             /\ IsInt(LastSegment(content_range[1]))
        THEN Some(IntOf(LastSegment(content_range[1])))
        ELSE Some(Len(data))

\* CountOf written as "int(...) or None": a total of 0 is dropped
CountOfZeroAbsent(r, data) ==
    LET content_range == Get(r.headers, "content-range")
    IN  IF content_range # None /\ content_range[1] # <<>>
        THEN IF IsInt(LastSegment(content_range[1]))
             THEN IF IntOf(LastSegment(content_range[1])) = 0
                  THEN None
                  ELSE Some(IntOf(LastSegment(content_range[1])))
             ELSE Some(Len(data))
        ELSE None

\* the count read from the content-range header of r, data being the parsed body
CountOf(r, data) ==
    LET content_range == Get(r.headers, "content-range")
    IN  IF content_range # None /\ content_range[1] # <<>>
        THEN IF IsInt(LastSegment(content_range[1]))
             THEN Some(IntOf(LastSegment(content_range[1])))
             ELSE Some(Len(data))
        ELSE None

\* response.json() raises on a text that is not JSON
JsonError ==
    [ kind |-> "raised", type |-> "json.JSONDecodeError", message |-> "" ]

\* Interpret with the error test written "> 400"
InterpretAbove400(r) ==
    IF r.status > 400
    THEN DatabaseError(r)
    ELSE IF r.text # "" /\ ~IsJson(r.text)
    THEN JsonError
    ELSE LET data == IF r.text # "" THEN Json(r.text) ELSE <<>>
         IN  [ kind |-> "envelope", data |-> data, count |-> CountOf(r, data) ]

\* Interpret calling response.json() also on an empty text
InterpretJsonAlways(r) ==
    IF r.status >= 400
    THEN DatabaseError(r)
    ELSE IF ~IsJson(r.text)
    THEN JsonError
    ELSE [ kind |-> "envelope", data |-> Json(r.text),
           count |-> CountOf(r, Json(r.text)) ]

\* what execute() does with the response r
Interpret(r) ==
    IF r.status >= 400
    THEN DatabaseError(r)
    ELSE IF r.text # "" /\ ~IsJson(r.text)
    THEN JsonError
    ELSE LET data == IF r.text # "" THEN Json(r.text) ELSE <<>>
         IN  [ kind |-> "envelope", data |-> data, count |-> CountOf(r, data) ]

\* the httpx error caught and raised again as the error of line 110
TransportErrorWrapped ==
    [ kind |-> "raised", type |-> "Exception", message |-> "Database error: 0 - " ]

\* no response was obtained: the httpx error leaves execute() as it is
TransportError ==
    [ kind |-> "raised", type |-> "httpx.TransportError", message |-> "" ]

-----------------------------------------------------------------------------
(* The backend: the responses the model lets it send *)

Statuses == {200, 399, 400, 404, 500}

ErrorText == "{message:duplicate key}"

SuccessBodies == {""} \cup {JsonText(rows) : rows \in RowLists}

\* the one-digit or two-digit decimal characters of n
Digits(n) ==
    IF n < 10 THEN <<DigitChars[n + 1]>>
    ELSE <<DigitChars[(n \div 10) + 1], DigitChars[(n % 10) + 1]>>

\* Content-Range of a reply holding the first k rows of total matching ones;
\* total is <<"*">> when no count was asked for
ContentRange(k, total) ==
    (IF k = 0 THEN <<"*">> ELSE <<"0", "-">> \o Digits(k - 1)) \o <<"/">> \o total

ContentRanges ==
    { <<>>,                                  \* an empty header value
      <<"0", "-", "9", "/", "4", "2">>,      \* 0-9/42
      <<"0", "-", "9", "/">>,                \* 0-9/
      <<"*", "/", "-", "1">>,                \* */-1
      <<"0", "/", "2", "/", "1">>,           \* 0/2/1
      <<"7">> }                              \* 7
    \cup {ContentRange(k, <<"*">>) : k \in 0..MaxRows}
    \cup {ContentRange(0, Digits(n)) : n \in 0..MaxRows}
    \cup {ContentRange(MaxRows, Digits(MaxRows))}

ResponseHeaders ==
    {EmptyDict} \cup {[h \in {"content-range"} |-> cr] : cr \in ContentRanges}

Responses ==
    { [status |-> st, text |-> tx, headers |-> hd] :
        st \in Statuses, tx \in SuccessBodies \cup {ErrorText}, hd \in ResponseHeaders }

-----------------------------------------------------------------------------
(* The users table behind the backend, answering as the wire contract says *)

\* app.auth.password: hash_password and verify_password
HashPassword(password) == "hash(" \o password \o ")"
VerifyPassword(password, hashed) == hashed = HashPassword(password)

\* the row the table holds at the start; it has its is_active column or not
FirstUser(is_active) ==
    LET row == [ id            |-> "u1",
                 name          |-> "Asha",
                 email         |-> "a@x.io",
                 password_hash |-> HashPassword("pw1"),
                 role          |-> "user",
                 last_login    |-> "" ]
    IN  IF is_active = None THEN row
        ELSE [k \in DOMAIN row \cup {"is_active"} |->
                 IF k = "is_active" THEN is_active[1] ELSE row[k]]

\* the tables the model starts from: with or without a unique constraint on
\* email, the first user active, inactive or without the column
UserTables ==
    { [rows |-> <<FirstUser(a)>>, unique_email |-> u, has_is_active |-> a # None] :
        a \in {None, Some(TRUE), Some(FALSE)}, u \in BOOLEAN }

\* the query parameters that are column filters
FilterKeys(params) == DOMAIN params \ {"select", "order", "limit", "or"}

\* the row satisfies every eq filter of the request
Matches(row, params) ==
    \A k \in FilterKeys(params) :
        /\ k \in DOMAIN row
        /\ k \notin {"is_active"}
        /\ params[k] = "eq." \o row[k]

\* the offsets a Range header names
RangeOf(headers) ==
    IF "Range" \notin DOMAIN headers THEN <<0, MaxUsers>>
    ELSE CHOOSE se \in (0..(MaxPage * MaxLimit)) \X (0..(MaxPage * MaxLimit)) :
            headers["Range"] = ToString(se[1]) \o "-" \o ToString(se[2])

\* rows start..end of a list, offsets counted from 0
Slice(rows, start, end) ==
    IF start >= Len(rows) THEN <<>>
    ELSE SubSeq(rows, start + 1, IF end + 1 < Len(rows) THEN end + 1 ELSE Len(rows))

\* Content-Range of k rows from offset start out of total
ContentRangeAt(start, k, total) ==
    (IF k = 0 THEN <<"*">> ELSE Digits(start) \o <<"-">> \o Digits(start + k - 1))
        \o <<"/">> \o total

Preferred(req, value) ==
    "Prefer" \in DOMAIN req.headers /\ req.headers["Prefer"] = value

\* the rows as the response body carries them
Body(req, rows) ==
    LET select == IF "select" \in DOMAIN req.params THEN req.params["select"]
                  ELSE AllColumns
    IN  JsonText([n \in 1..Len(rows) |-> Project(rows[n], select)])

\* GET: the matching rows, ordered, cut to the range, projected
ReadReply(req, t) ==
    LET matching == SelectSeq(t.rows, LAMBDA row : Matches(row, req.params))
        ordered == IF "order" \in DOMAIN req.params
                      /\ req.params["order"] = "created_at.desc"
                   THEN Reverse(matching) ELSE matching
        se == RangeOf(req.headers)
        page == Slice(ordered, se[1], se[2])
        total == IF Preferred(req, "count=exact") THEN Digits(Len(matching))
                 ELSE <<"*">>
    IN  [ table    |-> t,
          response |-> [ status  |-> 200,
                         text    |-> Body(req, page),
                         headers |-> [h \in {"content-range"} |->
                                         ContentRangeAt(se[1], Len(page), total)] ] ]

\* POST: the row is added with the columns the backend fills in, unless the
\* table has the unique constraint and holds the email
InsertReply(req, t) ==
    LET data == req.json[1]
        filled == [ id |-> "u" \o ToString(Len(t.rows) + 1), last_login |-> "" ]
        keys == DOMAIN data \cup DOMAIN filled
                    \cup (IF t.has_is_active THEN {"is_active"} ELSE {})
        row == [k \in keys |->
                    IF k \in DOMAIN data THEN data[k]
                    ELSE IF k = "is_active" THEN TRUE
                    ELSE filled[k]]
        taken == \E n \in 1..Len(t.rows) : t.rows[n].email = data.email
    IN  IF t.unique_email /\ taken
        THEN [ table    |-> t,
               response |-> [ status  |-> 409,
                              text    |-> ErrorText,
                              headers |-> EmptyDict ] ]
        ELSE [ table    |-> [t EXCEPT !.rows = Append(@, row)],
               response |-> [ status  |-> 201,
                              text    |-> IF Preferred(req, "return=representation")
                                          THEN Body(req, <<row>>) ELSE "",
                              headers |-> EmptyDict ] ]

\* PATCH: the matching rows take the values of the body
UpdateReply(req, t) ==
    LET data == req.json[1]
        changed(row) == [k \in DOMAIN row \cup DOMAIN data |->
                            IF k \in DOMAIN data THEN data[k] ELSE row[k]]
        rows == [n \in 1..Len(t.rows) |->
                    IF Matches(t.rows[n], req.params) THEN changed(t.rows[n])
                    ELSE t.rows[n]]
        touched == SelectSeq(rows, LAMBDA row : Matches(row, req.params))
    IN  [ table    |-> [t EXCEPT !.rows = rows],
          response |-> [ status  |-> 200,
                         text    |-> IF Preferred(req, "return=representation")
                                     THEN Body(req, touched) ELSE "",
                         headers |-> EmptyDict ] ]

\* what the backend does with the request on table t
BackendReply(req, t) ==
    IF req.verb = "GET" THEN ReadReply(req, t)
    ELSE IF req.verb = "POST" THEN InsertReply(req, t)
    ELSE UpdateReply(req, t)

\* the backend fails whatever the request
OutageResponse == [status |-> 500, text |-> ErrorText, headers |-> EmptyDict]

-----------------------------------------------------------------------------
(* Arguments of the service methods *)

OptBool == {None, Some(TRUE), Some(FALSE)}

Roles == {"user", "institution"}

OptRole == {None} \cup {Some(r) : r \in Roles}

RoleEnum == {[name |-> "USER", value |-> "user"],
             [name |-> "INSTITUTION", value |-> "institution"]}

\* uuid.UUID values; str(u) is u.hex
ProfileIds == {[hex |-> "p1"], [hex |-> "p2"]}

\* ProfileUpdate objects, cut down to three of their optional fields
ProfileUpdates ==
    [ full_name : {None, Some("Asha")},
      is_active : {None, Some(FALSE)},
      role      : {None} \cup {Some(e) : e \in {CHOOSE e \in RoleEnum : e.value = "user"}} ]

\* ProfileCreate objects, cut down to the same two fields (full_name is required)
ProfileCreates ==
    [ full_name : {Some("Asha")},
      role      : {Some(e) : e \in RoleEnum} ]

\* f"{value}" of a bool
PyStrBool(v) == IF v THEN "True" ELSE "False"

\* ModelDump leaving out every field whose value is falsy, not only None
ModelDumpTruthy(m) ==
    LET keys == {k \in DOMAIN m : m[k] # None /\ ~(k = "is_active" /\ ~m[k][1])}
    IN  [k \in keys |-> IF k = "role" THEN m[k][1].value ELSE m[k][1]]

\* model_dump(exclude_none=True) followed by the conversion of role to its value
ModelDump(m) ==
    LET keys == {k \in DOMAIN m : m[k] # None}
    IN  [k \in keys |-> IF k = "role" THEN m[k][1].value ELSE m[k][1]]

-----------------------------------------------------------------------------
(* The queries the services build *)

\* get_all_profiles with the range ending at offset + limit
GetAllProfilesQueryLongRange(page, limit, is_active, role) ==
    LET offset == (page - 1) * limit
        q0 == Select(From("profiles"), "*", Some("exact"))
        q1 == IF is_active # None THEN Eq(q0, "is_active", PyStrBool(is_active[1])) ELSE q0
        q2 == IF role # None THEN Eq(q1, "role", role[1]) ELSE q1
    IN  Range(Order(q2, "created_at", TRUE), offset, offset + limit)

\* ProfileService.get_all_profiles, up to execute()
GetAllProfilesQuery(page, limit, is_active, role) ==
    LET offset == (page - 1) * limit
        q0 == Select(From("profiles"), "*", Some("exact"))
        q1 == IF is_active # None THEN Eq(q0, "is_active", PyStrBool(is_active[1])) ELSE q0
        q2 == IF role # None THEN Eq(q1, "role", role[1]) ELSE q1
    IN  Range(Order(q2, "created_at", TRUE), offset, offset + limit - 1)

\* AuthService.get_all_users, up to execute()
GetAllUsersQuery(page, limit, role) ==
    LET offset == (page - 1) * limit
        q0 == Select(From("users"),
                     "id, name, email, role, is_active, is_verified, created_at, last_login",
                     Some("exact"))
        q1 == IF role # None /\ role[1] # "" THEN Eq(q0, "role", role[1]) ELSE q0
    IN  Range(Order(q1, "created_at", TRUE), offset, offset + limit - 1)

\* ProfileService.get_role_stats: the count query for one role
RoleCountQuery(role) ==
    Eq(Select(From("profiles"), "id", Some("exact")), "role", role)

\* ProfileService.get_profile_by_id, up to execute()
GetProfileByIdQuery(profile_id) ==
    Eq(Select(From("profiles"), "*", None), "id", profile_id.hex)

\* ProfileService.create_profile, up to execute()
CreateProfileQuery(profile_data) ==
    Insert(From("profiles"), ModelDump(profile_data))

\* ProfileService.update_profile, up to execute()
UpdateProfileQuery(profile_id, update_data) ==
    LET data == ModelDump(update_data)
    IN  IF data = EmptyDict
        THEN GetProfileByIdQuery(profile_id)
        ELSE Eq(Update(From("profiles"), data), "id", profile_id.hex)

\* ProfileService.delete_profile, up to execute()
DeleteProfileQuery(profile_id) ==
    Eq(Delete(From("profiles")), "id", profile_id.hex)

\* AuthService.email_exists, up to execute()
EmailExistsQuery(email) ==
    Eq(Select(From("users"), IdColumn, None), "email", email)

\* AuthService.register_user: the row to insert
RegisterData(user_data) ==
    [ name          |-> user_data.name,
      email         |-> user_data.email,
      password_hash |-> HashPassword(user_data.password),
      role          |-> user_data.role.value ]

\* AuthService.register_user, up to execute()
RegisterUserQuery(user_data) ==
    Insert(From("users"), RegisterData(user_data))

\* AuthService.login_user and get_user_by_email, up to execute()
UserByEmailQuery(email) ==
    Eq(Select(From("users"), AllColumns, None), "email", email)

\* AuthService.get_user_by_id, up to execute()
UserByIdQuery(user_id) ==
    Eq(Select(From("users"), AllColumns, None), "id", user_id)

\* datetime.utcnow().isoformat()
Now == "2026-01-01T00:00:00"

\* AuthService.update_last_login, up to execute()
UpdateLastLoginQuery(user_id) ==
    Eq(Update(From("users"), [last_login |-> Now]), "id", user_id)

-----------------------------------------------------------------------------
(* What the services return from an envelope *)

\* response.count if response.count else len(response.data)
TotalOf(env) ==
    IF env.count # None /\ env.count[1] # 0 THEN env.count[1] ELSE Len(env.data)

\* get_all_profiles and get_all_users: (response.data, total)
PageReturn(env) == <<env.data, TotalOf(env)>>

\* response.data[0] if response.data else None
FirstOrNone(env) == IF env.data # <<>> THEN Some(env.data[1]) ELSE None

\* len(response.data) > 0
AnyRow(env) == Len(env.data) > 0

\* response.count if response.count else 0
CountOrZero(env) ==
    IF env.count # None /\ env.count[1] # 0 THEN env.count[1] ELSE 0

\* get_role_stats: the returned dict
RoleStatsReturn(users_response, institutions_response) ==
    [ total_users        |-> CountOrZero(users_response),
      total_institutions |-> CountOrZero(institutions_response),
      total_profiles     |-> CountOrZero(users_response)
                               + CountOrZero(institutions_response) ]

ReturnOf(o, early, env) ==
    CASE o \in {"get_all_profiles", "get_all_users"} -> PageReturn(env)
      [] o \in {"get_profile_by_id", "create_profile", "update_profile"} -> FirstOrNone(env)
      [] o = "delete_profile" -> AnyRow(env)
      [] o = "get_role_stats" -> RoleStatsReturn(early[1], env)
      [] OTHER -> env

-----------------------------------------------------------------------------
(* Tokens, and what the auth service makes of an envelope *)

\* d.pop(k, None)
Pop(d, k) == [x \in DOMAIN d \ {k} |-> d[x]]

\* d.get(k, default)
GetOr(d, k, default) == IF k \in DOMAIN d THEN d[k] ELSE default

\* create_access_token: the payload with its expiry, signed with the secret
CreateAccessToken(data) ==
    [ payload |-> [k \in DOMAIN data \cup {"exp"} |->
                      IF k = "exp" THEN "utcnow+expires_delta" ELSE data[k]],
      signed  |-> TRUE ]

\* a token not signed with the secret
ForgedToken ==
    [ payload |-> [sub |-> "u1", role |-> "user", exp |-> "utcnow+expires_delta"],
      signed  |-> FALSE ]

\* verify_token: jwt.decode raises JWTError on a bad signature or a passed exp
VerifyToken(token, expired) ==
    IF token.signed /\ ~expired THEN Some(token.payload) ELSE None

\* FirstUserOrNone leaving the row as the backend sent it
FirstUserAsSent(env) ==
    IF env.data # <<>> THEN Some(env.data[1]) ELSE None

\* register_user, get_user_by_email, get_user_by_id: the first row without
\* its password_hash, None when there is no row
FirstUserOrNone(env) ==
    IF env.data # <<>> THEN Some(Pop(env.data[1], "password_hash")) ELSE None

\* LoginRefusal without the check of is_active
LoginRefusalNoActive(env, password) ==
    IF env.data = <<>> THEN "no user"
    ELSE IF ~VerifyPassword(password, GetOr(env.data[1], "password_hash", ""))
    THEN "wrong password"
    ELSE "none"

\* login_user: which of its three checks returns None, "none" when none does
LoginRefusal(env, password) ==
    IF env.data = <<>> THEN "no user"
    ELSE IF ~VerifyPassword(password, GetOr(env.data[1], "password_hash", ""))
    THEN "wrong password"
    ELSE IF ~GetOr(env.data[1], "is_active", TRUE)
    THEN "inactive"
    ELSE "none"

\* login_user: the dict returned on success
LoginResult(user) ==
    [ access_token |-> CreateAccessToken([sub |-> user.id, role |-> user.role]),
      token_type   |-> "bearer",
      expires_in   |-> "access_token_expire_minutes * 60",
      user         |-> Pop(user, "password_hash") ]

\* get_current_user after get_user_by_id: the status it raises, 200 when none
CurrentUserStatus(user) ==
    IF user = None THEN 401
    ELSE IF ~GetOr(user[1], "is_active", FALSE) THEN 403
    ELSE 200

\* the parameters of AuthService.get_all_users after self
GetAllUsersParams == <<"page", "limit", "role">>

\* a call with positional arguments: Python raises TypeError when there are
\* more of them than parameters
BindPositional(params, actuals) ==
    IF Len(actuals) > Len(params)
    THEN [ kind |-> "raised", type |-> "TypeError", message |-> "" ]
    ELSE [ kind |-> "bound",
           args |-> [n \in 1..Len(actuals) |-> actuals[n]] ]

-----------------------------------------------------------------------------
(* Request handlers: the routes and service calls run by worker threads *)

Handlers == {1, 2}

IdleHandler ==
    [ call    |-> "idle",     \* the route or service method being run
      args    |-> EmptyDict,
      pc      |-> "idle",     \* "idle", "wait", "answered", "done"
      at      |-> "",         \* the service method whose execute() is waiting
      wire    |-> <<>>,       \* the requests sent, in order
      resp    |-> None,       \* the response to the last request
      user    |-> None,       \* login_user: the row read
      returns |-> <<>>,       \* what the service methods called returned
      raised  |-> None,       \* the error that ended the call
      answer  |-> None ]      \* the HTTP answer of the route

\* the table of the service-layer model: no users
NoUsers == [rows |-> <<>>, unique_email |-> TRUE, has_is_active |-> TRUE]

AuthIdle ==
    /\ users = NoUsers
    /\ handlers = [i \in Handlers |-> IdleHandler]
    /\ tokens = {}

-----------------------------------------------------------------------------
(* State machine: one service call at a time, each execute() one round trip *)

NoOutcome == [kind |-> "none"]
NoReturn == [status |-> "none"]
Returned(v) == [status |-> "returned", value |-> v]
Raised(e) == [status |-> "raised", error |-> e]

\* the columns and values the builder calls of the model range over
Columns == {"role", "email", "order"}
Values == {"user", "institution"}

\* history of a fresh builder: no filter call on any column (last), no filter
\* call on a column filtered before (again), nothing staged, no
\* select/or_/order/limit call (shaped); calls holds the names of the
\* select/or_/order/limit/range calls made, desc the argument of the last
\* order call, lastStaged the last insert/update/delete call and its payload
NoHist ==
    [ last       |-> [c \in Columns |-> None],
      again      |-> FALSE,
      staged     |-> FALSE,
      shaped     |-> FALSE,
      calls      |-> {},
      desc       |-> None,
      lastStaged |-> None ]

Init ==
    /\ op = "idle"
    /\ args = EmptyDict
    /\ q = From("profiles")
    /\ pc = "idle"
    /\ wire = <<>>
    /\ attempts = 0
    /\ resp = None
    /\ out = NoOutcome
    /\ locals = <<>>
    /\ ret = NoReturn
    /\ hist = NoHist
    /\ SharedIdle
    /\ AuthIdle

\* a service method builds the query b and enters execute(), which sends its request
Begin(o, a, b) ==
    /\ pc = "idle"
    /\ op' = o
    /\ args' = a
    /\ q' = b
    /\ wire' = Dispatch(b)
    /\ attempts' = Len(Dispatch(b))
    /\ pc' = "wait"
    /\ resp' = None
    /\ out' = NoOutcome
    /\ locals' = <<>>
    /\ ret' = NoReturn
    /\ UNCHANGED <<hist, sharedVars, authVars>>

get_all_profiles ==
    \E page \in 1..MaxPage, limit \in 1..MaxLimit, is_active \in OptBool, role \in OptRole :
        Begin("get_all_profiles",
              [page |-> page, limit |-> limit, is_active |-> is_active, role |-> role],
              GetAllProfilesQuery(page, limit, is_active, role))

get_all_users ==
    \E page \in 1..MaxPage, limit \in 1..MaxLimit, role \in OptRole :
        Begin("get_all_users",
              [page |-> page, limit |-> limit, role |-> role],
              GetAllUsersQuery(page, limit, role))

get_role_stats ==
    Begin("get_role_stats", EmptyDict, RoleCountQuery("user"))

get_profile_by_id ==
    \E profile_id \in ProfileIds :
        Begin("get_profile_by_id", [profile_id |-> profile_id],
              GetProfileByIdQuery(profile_id))

create_profile ==
    \E profile_data \in ProfileCreates :
        Begin("create_profile", [profile_data |-> profile_data],
              CreateProfileQuery(profile_data))

update_profile ==
    \E profile_id \in ProfileIds, update_data \in ProfileUpdates :
        Begin("update_profile", [profile_id |-> profile_id, update_data |-> update_data],
              UpdateProfileQuery(profile_id, update_data))

delete_profile ==
    \E profile_id \in ProfileIds :
        Begin("delete_profile", [profile_id |-> profile_id],
              DeleteProfileQuery(profile_id))

\* execute() raised e: no service method catches it
Propagate(e) ==
    /\ out' = e
    /\ ret' = Raised(e)
    /\ pc' = "done"
    /\ UNCHANGED <<op, args, q, wire, attempts, locals, hist, sharedVars, authVars>>

\* the backend answers; execute() interprets the answer and the method goes on
Respond ==
    /\ pc = "wait"
    /\ \E r \in Responses :
        LET o == Interpret(r)
        IN  /\ resp' = Some(r)
            /\ IF o.kind = "raised"
               THEN Propagate(o)
               ELSE IF op = "get_role_stats" /\ locals = <<>>
               THEN \* the users count is in; the institutions count is asked for
                    /\ out' = o
                    /\ locals' = <<o>>
                    /\ q' = RoleCountQuery("institution")
                    /\ wire' = wire \o Dispatch(q')
                    /\ attempts' = Len(Dispatch(q'))
                    /\ UNCHANGED <<op, args, pc, ret, hist, sharedVars, authVars>>
               ELSE /\ out' = o
                    /\ ret' = Returned(ReturnOf(op, locals, o))
                    /\ pc' = "done"
                    /\ UNCHANGED <<op, args, q, wire, attempts, locals, hist,
                                   sharedVars, authVars>>

\* TransportFailure with one retry of the request before giving up
TransportFailureRetry ==
    /\ pc = "wait"
    /\ resp' = None
    /\ IF attempts < 2
       THEN /\ wire' = wire \o Dispatch(q)
            /\ attempts' = attempts + 1
            /\ UNCHANGED <<op, args, q, pc, out, locals, ret, hist,
                           sharedVars, authVars>>
       ELSE Propagate(TransportError)

\* no response is obtained (connection refused, timeout): httpx raises
TransportFailure ==
    /\ pc = "wait"
    /\ resp' = None
    /\ Propagate(TransportError)

\* the call is over; the next one starts from a fresh builder
Finish ==
    /\ pc = "done"
    /\ op' = "idle"
    /\ args' = EmptyDict
    /\ q' = From("profiles")
    /\ pc' = "idle"
    /\ wire' = <<>>
    /\ attempts' = 0
    /\ resp' = None
    /\ out' = NoOutcome
    /\ locals' = <<>>
    /\ ret' = NoReturn
    /\ hist' = NoHist
    /\ UNCHANGED <<sharedVars, authVars>>

Next ==
    \/ get_all_profiles
    \/ get_all_users
    \/ get_role_stats
    \/ get_profile_by_id
    \/ create_profile
    \/ update_profile
    \/ delete_profile
    \/ Respond
    \/ TransportFailure
    \/ Finish

Spec == Init /\ [][Next]_vars

TypeOK ==
    /\ pc \in {"idle", "build", "wait", "done"}
    /\ attempts \in 0..1

-----------------------------------------------------------------------------
(* The builder on its own: any chain of calls on one TableQuery, then execute() *)

InitBuilder ==
    /\ op = "chain"
    /\ args = EmptyDict
    /\ q = From("profiles")
    /\ pc = "build"
    /\ wire = <<>>
    /\ attempts = 0
    /\ resp = None
    /\ out = NoOutcome
    /\ locals = <<>>
    /\ ret = NoReturn
    /\ hist = NoHist
    /\ SharedIdle
    /\ AuthIdle

\* a builder call: q becomes b, the history h
Chain(b, h) ==
    /\ pc = "build"
    /\ q' = b
    /\ hist' = h
    /\ UNCHANGED <<op, args, pc, wire, attempts, resp, out, locals, ret,
                   sharedVars, authVars>>

Filtered(c, kind, v) ==
    [hist EXCEPT !.last[c] = Some(<<kind, v>>),
                 !.again = @ \/ hist.last[c] # None]

Shaped(name) == [hist EXCEPT !.shaped = TRUE, !.calls = @ \cup {name}]

Staged(kind, data) ==
    [hist EXCEPT !.staged = TRUE,
                 !.lastStaged = Some([kind |-> kind, data |-> data])]

b_select ==
    \E count \in {None, Some("exact")} : Chain(Select(q, "*", count), Shaped("select"))

\* the filter calls on column c
eq_on(c) ==
    \E v \in Values : Chain(Eq(q, c, v), Filtered(c, "eq", v))

neq_on(c) ==
    Chain(Neq(q, c, "user"), Filtered(c, "neq", "user"))

ilike_on(c) ==
    Chain(Ilike(q, c, "%a%"), Filtered(c, "ilike", "%a%"))

b_eq ==
    \E c \in Columns : eq_on(c)

b_neq ==
    \E c \in Columns : neq_on(c)

b_ilike ==
    \E c \in Columns : ilike_on(c)

b_or ==
    Chain(Or(q, "full_name.ilike.%a%,email.ilike.%a%"), Shaped("or"))

b_order ==
    \E desc \in BOOLEAN :
        Chain(Order(q, "created_at", desc),
              [Shaped("order") EXCEPT !.desc = Some(desc)])

b_limit ==
    Chain(Limit(q, 10), Shaped("limit"))

b_range ==
    Chain(Range(q, 0, 9), [hist EXCEPT !.calls = @ \cup {"range"}])

b_insert ==
    LET data == [email |-> "a@b.com"]
    IN  Chain(Insert(q, data), Staged("insert", Some(data)))

b_update ==
    LET data == [role |-> "institution"]
    IN  Chain(Update(q, data), Staged("update", Some(data)))

b_delete ==
    Chain(Delete(q), Staged("delete", None))

\* execute(): the request leaves
b_execute ==
    /\ pc = "build"
    /\ wire' = Dispatch(q)
    /\ attempts' = Len(Dispatch(q))
    /\ pc' = "wait"
    /\ UNCHANGED <<op, args, q, resp, out, locals, ret, hist, sharedVars, authVars>>

\* db_client.from_: the caller takes a new builder
b_from ==
    /\ pc = "wait"
    /\ q' = From("profiles")
    /\ pc' = "build"
    /\ wire' = <<>>
    /\ attempts' = 0
    /\ hist' = NoHist
    /\ UNCHANGED <<op, args, resp, out, locals, ret, sharedVars, authVars>>

NextBuilder ==
    \/ b_select
    \/ b_eq
    \/ b_neq
    \/ b_ilike
    \/ b_or
    \/ b_order
    \/ b_limit
    \/ b_range
    \/ b_insert
    \/ b_update
    \/ b_delete
    \/ b_execute
    \/ b_from

SpecBuilder == InitBuilder /\ [][NextBuilder]_vars

-----------------------------------------------------------------------------
(* Two callers, each building and executing queries on builders of db_client *)

\* a builder call of caller i: b is the call applied to the caller's builder,
\* a the same call applied to the builder built alone
Call(i, b, a) ==
    /\ builders[i] # None
    /\ heap' = Mutated(heap, builders[i][1], b)
    /\ builders' = [builders EXCEPT ![i] =
                        Some([@[1] EXCEPT !.method = b.method, !.body = b.body])]
    /\ alone' = [alone EXCEPT ![i] = Some(a)]
    /\ UNCHANGED <<sent, serviceVars, authVars>>

\* the builder of caller i as the caller sees it
Mine(i) == Deref(heap, builders[i][1])

\* db_client.from_("profiles") by caller i
s_from(i) ==
    /\ builders[i] = None
    /\ LET new == TableQueryInit(heap, i, ClientBaseUrl, ClientRef, "profiles")
       IN  /\ heap' = new.heap
           /\ builders' = [builders EXCEPT ![i] = Some(new.self)]
    /\ alone' = [alone EXCEPT ![i] = Some(From("profiles"))]
    /\ sent' = [sent EXCEPT ![i] = None]
    /\ UNCHANGED <<serviceVars, authVars>>

s_select(i) ==
    Call(i, Select(Mine(i), "*", Some("exact")), Select(alone[i][1], "*", Some("exact")))

s_eq(i) ==
    Call(i, Eq(Mine(i), "role", "user"), Eq(alone[i][1], "role", "user"))

s_range(i) ==
    Call(i, Range(Mine(i), 0, 9), Range(alone[i][1], 0, 9))

s_insert(i) ==
    LET data == [email |-> "a@b.com"]
    IN  Call(i, Insert(Mine(i), data), Insert(alone[i][1], data))

\* execute() by caller i: the request leaves and the builder is dropped
s_execute(i) ==
    /\ builders[i] # None
    /\ sent' = [sent EXCEPT ![i] = Some(Dispatch(Mine(i))[1])]
    /\ builders' = [builders EXCEPT ![i] = None]
    /\ UNCHANGED <<heap, alone, serviceVars, authVars>>

InitShared ==
    /\ op = "idle"
    /\ args = EmptyDict
    /\ q = From("profiles")
    /\ pc = "idle"
    /\ wire = <<>>
    /\ attempts = 0
    /\ resp = None
    /\ out = NoOutcome
    /\ locals = <<>>
    /\ ret = NoReturn
    /\ hist = NoHist
    /\ SharedIdle
    /\ AuthIdle

NextShared ==
    \E i \in Callers :
        \/ s_from(i)
        \/ s_select(i)
        \/ s_eq(i)
        \/ s_range(i)
        \/ s_insert(i)
        \/ s_execute(i)

SpecShared == InitShared /\ [][NextShared]_vars

-----------------------------------------------------------------------------
(* The auth routes and services against the users table *)

RegisterEmails == {"a@x.io", "n@x.io"}
LoginEmails == {"a@x.io", "n@x.io"}
Passwords == {"pw1", "bad"}

\* UserRegister objects, cut down to the fields register_user reads
UserRegisters ==
    [ name     : {"Ravi"},
      email    : RegisterEmails,
      password : {"pw1"},
      role     : {e \in RoleEnum : e.value = "user"} ]

Routes == {"register", "login", "me", "users"}

Started(call, a) == [IdleHandler EXCEPT !.call = call, !.args = a]

\* execute() on builder b, reached in service method at
Sending(h, at, b) ==
    [h EXCEPT !.pc = "wait", !.at = at, !.wire = @ \o Dispatch(b), !.resp = None]

Returning(h, method, value) ==
    [h EXCEPT !.returns = Append(@, [method |-> method, value |-> value])]

\* the route answers (an HTTPException or the AuthResponse)
Answering(h, status, detail, data) ==
    [h EXCEPT !.pc = "done",
              !.answer = Some([status |-> status, detail |-> detail, data |-> data])]

\* an exception nothing catches: FastAPI answers a route with 500
Failing(h, e) ==
    [h EXCEPT !.pc = "done",
              !.raised = Some(e),
              !.answer = IF h.call \in Routes
                         THEN Some([status |-> 500,
                                    detail |-> "Internal Server Error",
                                    data   |-> None])
                         ELSE None]

Enter(i, h) ==
    /\ handlers' = [handlers EXCEPT ![i] = h]
    /\ UNCHANGED <<users, tokens, serviceVars, sharedVars>>

\* POST /auth/register: email_exists is asked first
a_register(i) ==
    /\ handlers[i].pc = "idle"
    /\ Len(users.rows)
         + Cardinality({j \in Handlers : handlers[j].call = "register"}) < MaxUsers
    /\ \E user_data \in UserRegisters :
           Enter(i, Sending(Started("register", [user_data |-> user_data]),
                            "email_exists", EmailExistsQuery(user_data.email)))

\* POST /auth/login: login_user reads the user by email
a_login(i) ==
    /\ handlers[i].pc = "idle"
    /\ \E email \in LoginEmails, password \in Passwords :
           Enter(i, Sending(Started("login", [email |-> email, password |-> password]),
                            "login_user", UserByEmailQuery(email)))

\* GET /auth/me: get_current_user verifies the token, then reads the user;
\* expired says whether the token's exp has passed
a_me(i) ==
    /\ handlers[i].pc = "idle"
    /\ \E token \in tokens \cup {ForgedToken}, expired \in BOOLEAN :
           LET h == Started("me", [token |-> token, expired |-> expired])
               payload == VerifyToken(token, expired)
           IN  IF payload = None
               THEN Enter(i, Answering(h, 401, "Invalid or expired token", None))
               ELSE IF GetOr(payload[1], "sub", "") = ""
               THEN Enter(i, Answering(h, 401, "Invalid token payload", None))
               ELSE Enter(i, Sending(h, "get_user_by_id", UserByIdQuery(payload[1].sub)))

\* GET /auth/users: the route calls get_all_users with five positional arguments
a_users(i) ==
    /\ handlers[i].pc = "idle"
    /\ \E page \in 1..MaxPage, limit \in 1..MaxLimit, role \in OptRole :
           LET h == Started("users", [page |-> page, limit |-> limit, role |-> role,
                                      city |-> None, gender |-> None])
               call == BindPositional(GetAllUsersParams,
                                      <<page, limit, role, None, None>>)
           IN  IF call.kind = "raised"
               THEN Enter(i, Failing(h, call))
               ELSE Enter(i, Sending(h, "get_all_users",
                                     GetAllUsersQuery(call.args[1], call.args[2], call.args[3])))

\* AuthService.get_all_users called as it is defined
a_get_all_users(i) ==
    /\ handlers[i].pc = "idle"
    /\ \E page \in 1..MaxPage, limit \in 1..MaxLimit, role \in OptRole :
           Enter(i, Sending(Started("get_all_users",
                                    [page |-> page, limit |-> limit, role |-> role]),
                            "get_all_users", GetAllUsersQuery(page, limit, role)))

\* AuthService.get_user_by_email
a_get_user_by_email(i) ==
    /\ handlers[i].pc = "idle"
    /\ \E email \in LoginEmails :
           Enter(i, Sending(Started("get_user_by_email", [email |-> email]),
                            "get_user_by_email", UserByEmailQuery(email)))

\* the backend serves the request of handler i
Reply(i) ==
    /\ handlers[i].pc = "wait"
    /\ LET h == handlers[i]
           reply == BackendReply(h.wire[Len(h.wire)], users)
       IN  /\ users' = reply.table
           /\ handlers' = [handlers EXCEPT ![i] =
                              [h EXCEPT !.pc = "answered", !.resp = Some(reply.response)]]
    /\ UNCHANGED <<tokens, serviceVars, sharedVars>>

\* the backend fails the request of handler i
Outage(i) ==
    /\ handlers[i].pc = "wait"
    /\ handlers' = [handlers EXCEPT ![i] =
                       [@ EXCEPT !.pc = "answered", !.resp = Some(OutageResponse)]]
    /\ UNCHANGED <<users, tokens, serviceVars, sharedVars>>

\* the handler after execute() returned envelope o in service method h.at
After(h, o) ==
    IF h.at = "email_exists"
    THEN IF AnyRow(o)
         THEN Answering(Returning(h, "email_exists", TRUE),
                        400, "Email already registered!", None)
         ELSE Sending(Returning(h, "email_exists", FALSE),
                      "register_user", RegisterUserQuery(h.args.user_data))
    ELSE IF h.at = "register_user"
    THEN LET new_user == FirstUserOrNone(o)
             r == Returning(h, "register_user", new_user)
         IN  IF new_user = None
             THEN Answering(r, 500, "Failed to register user", None)
             ELSE Answering(r, 201, "", new_user)
    ELSE IF h.at = "login_user"
    THEN IF LoginRefusal(o, h.args.password) # "none"
         THEN Answering(Returning(h, "login_user", None),
                        401, "Invalid email or password", None)
         ELSE Sending([h EXCEPT !.user = Some(o.data[1])],
                      "update_last_login", UpdateLastLoginQuery(o.data[1].id))
    ELSE IF h.at = "update_last_login"
    THEN LET result == LoginResult(h.user[1])
         IN  Answering(Returning(h, "login_user", Some(result)), 200, "", Some(result))
    ELSE IF h.at = "get_user_by_id"
    THEN LET user == FirstUserOrNone(o)
             r == Returning(h, "get_user_by_id", user)
             status == CurrentUserStatus(user)
         IN  IF status = 401 THEN Answering(r, 401, "User not found", None)
             ELSE IF status = 403
             THEN Answering(r, 403, "User account is deactivated", None)
             ELSE Answering(r, 200, "", user)
    ELSE IF h.at = "get_user_by_email"
    THEN [Returning(h, "get_user_by_email", FirstUserOrNone(o)) EXCEPT !.pc = "done"]
    ELSE [Returning(h, "get_all_users", PageReturn(o)) EXCEPT !.pc = "done"]

\* execute() of handler i gets its response and the handler runs on to its
\* next execute() or to its end
Continue(i) ==
    /\ handlers[i].pc = "answered"
    /\ LET h == handlers[i]
           o == Interpret(h.resp[1])
           next == IF o.kind = "raised" THEN Failing(h, o) ELSE After(h, o)
       IN  /\ handlers' = [handlers EXCEPT ![i] = next]
           /\ tokens' = IF o.kind # "raised" /\ h.at = "update_last_login"
                        THEN tokens \cup {next.answer[1].data[1].access_token}
                        ELSE tokens
    /\ UNCHANGED <<users, serviceVars, sharedVars>>

\* the answer is out; the worker takes the next request
Done(i) ==
    /\ handlers[i].pc = "done"
    /\ handlers' = [handlers EXCEPT ![i] = IdleHandler]
    /\ UNCHANGED <<users, tokens, serviceVars, sharedVars>>

InitAuth ==
    /\ op = "idle"
    /\ args = EmptyDict
    /\ q = From("profiles")
    /\ pc = "idle"
    /\ wire = <<>>
    /\ attempts = 0
    /\ resp = None
    /\ out = NoOutcome
    /\ locals = <<>>
    /\ ret = NoReturn
    /\ hist = NoHist
    /\ SharedIdle
    /\ users \in UserTables
    /\ handlers = [i \in Handlers |-> IdleHandler]
    /\ tokens = {}

\* one request at a time
NextAuth ==
    \/ a_register(1)
    \/ a_login(1)
    \/ a_me(1)
    \/ a_users(1)
    \/ a_get_all_users(1)
    \/ a_get_user_by_email(1)
    \/ Reply(1)
    \/ Outage(1)
    \/ Continue(1)
    \/ Done(1)

SpecAuth == InitAuth /\ [][NextAuth]_vars

\* two registrations at a time, the backend up
NextRace ==
    \E i \in Handlers :
        \/ a_register(i)
        \/ Reply(i)
        \/ Continue(i)
        \/ Done(i)

SpecRace == InitAuth /\ [][NextRace]_vars

-----------------------------------------------------------------------------
(* Properties of execute(), checked under Spec *)

\* the request the response in resp answers: get_role_stats, waiting for its
\* second answer, still holds the first one
AnsweredRequest ==
    IF pc = "wait" THEN wire[Len(wire) - 1] ELSE wire[Len(wire)]

HasContentRange == resp # None /\ "content-range" \in DOMAIN resp[1].headers

ContentRangeValue == resp[1].headers["content-range"]

\* seg is what follows the last "/" of s
IsTotalSegment(s, seg) ==
    /\ Len(seg) <= Len(s)
    /\ seg = SubSeq(s, Len(s) - Len(seg) + 1, Len(s))
    /\ \A i \in 1..Len(seg) : seg[i] # "/"
    /\ Len(seg) < Len(s) => s[Len(s) - Len(seg)] = "/"

TotalSegment(s) == CHOOSE seg \in {SubSeq(s, i, Len(s)) : i \in 1..(Len(s) + 1)} :
                        IsTotalSegment(s, seg)

\* C1: whatever operation was staged, a response with status >= 400 makes
\* execute() raise an error whose message holds that status code and the raw
\* body; no envelope is returned, whatever the body and the Content-Range header.
C1_BackendErrorSurfaces ==
    (resp # None /\ resp[1].status >= 400) =>
        /\ out.kind = "raised"
        /\ out.type = "Exception"
        /\ out.message =
             "Database error: " \o ToString(resp[1].status) \o " - " \o resp[1].text
        /\ ret.status = "raised"

\* a 404 with an empty body and a Content-Range header, answered to a DELETE
C1_Witness ==
    /\ resp # None
    /\ resp[1].status = 404
    /\ resp[1].text = ""
    /\ HasContentRange
    /\ AnsweredRequest.verb = "DELETE"
    /\ out.kind = "raised"

\* the count C2 states for a response with a Content-Range header
C2_Count ==
    IF IsInt(TotalSegment(ContentRangeValue))
    THEN Some(IntOf(TotalSegment(ContentRangeValue)))
    ELSE Some(Len(out.data))

\* C2 as stated: every response below 400 with a readable body and a
\* Content-Range header gives an envelope whose count is the integer after the
\* last "/", or the number of rows of the body when that is no integer.
C2_Original ==
    (HasContentRange /\ resp[1].status < 400 /\ resp[1].text \in SuccessBodies) =>
        /\ out.kind = "envelope"
        /\ out.count = C2_Count

\* C2 (amended): the same for every such response whose Content-Range value is
\* not the empty string; a malformed total never makes execute() raise.
C2_CountFromContentRange ==
    (HasContentRange /\ ContentRangeValue # <<>>
        /\ resp[1].status < 400 /\ resp[1].text \in SuccessBodies) =>
        /\ out.kind = "envelope"
        /\ out.count = C2_Count

\* 0-9/42 on a body of one row gives 42
C2_Witness ==
    /\ HasContentRange
    /\ ContentRangeValue = <<"0", "-", "9", "/", "4", "2">>
    /\ out.kind = "envelope"
    /\ Len(out.data) = 1
    /\ out.count = Some(42)

\* the Range header h reads start-end
IsRange(h, start, end) == h = ToString(start) \o "-" \o ToString(end)

PagedQuery(o, page, a) ==
    IF o = "get_all_profiles"
    THEN GetAllProfilesQuery(page, a.limit, a.is_active, a.role)
    ELSE GetAllUsersQuery(page, a.limit, a.role)

\* C3: for page >= 1 and limit >= 1 get_all_profiles and get_all_users send
\* Range: start-end with start = (page-1)*limit and end = start + limit - 1, so
\* start >= 0, end >= start, the range covers limit offsets, and the range of
\* page + 1 begins right after the range of page.
C3_PageRange ==
    (op \in {"get_all_profiles", "get_all_users"} /\ pc \in {"wait", "done"}) =>
        LET start == (args.page - 1) * args.limit
            end == (args.page - 1) * args.limit + args.limit - 1
        IN  /\ Len(wire) = 1
            /\ "Range" \in DOMAIN wire[1].headers
            /\ IsRange(wire[1].headers["Range"], start, end)
            /\ start >= 0
            /\ end >= start
            /\ end - start + 1 = args.limit
            /\ IsRange(PagedQuery(op, args.page + 1, args).headers["Range"],
                       end + 1, end + args.limit)

\* page 2 of get_all_users with limit 3 asks for rows 3 to 5
C3_Witness ==
    /\ op = "get_all_users"
    /\ pc = "wait"
    /\ args.page = 2
    /\ args.limit = 3
    /\ wire[1].headers["Range"] = "3-5"

\* the builder asked for a count: its Prefer header is count=exact
CountRequested(req) ==
    "Prefer" \in DOMAIN req.headers /\ req.headers["Prefer"] = "count=exact"

\* C6 as stated: an envelope has a count only if the builder requested one and
\* the response carries a Content-Range header.
C6_Original ==
    (out.kind = "envelope" /\ out.count # None) =>
        (CountRequested(AnsweredRequest) /\ HasContentRange)

\* C6 (amended): an envelope has a count exactly when the response carries a
\* Content-Range header with a non-empty value, whether or not the builder
\* requested a count.
C6_CountIffContentRange ==
    out.kind = "envelope" =>
        (out.count # None <=> (HasContentRange /\ ContentRangeValue # <<>>))

\* get_profile_by_id requests no count and still gets one
C6_Witness ==
    /\ op = "get_profile_by_id"
    /\ out.kind = "envelope"
    /\ ~CountRequested(AnsweredRequest)
    /\ out.count # None

\* what the backend answers to a read that matches no row: an empty array, and
\* Content-Range */0 when the count was asked for, */* otherwise
ZeroRowsReply(req) ==
    [ status  |-> 200,
      text    |-> "[]",
      headers |-> [h \in {"content-range"} |->
                     ContentRange(0, IF CountRequested(req) THEN <<"0">> ELSE <<"*">>)] ]

\* C7: a read that matches no row returns an envelope with no rows and, when
\* the count was requested, the count 0; get_all_profiles then returns ([], 0)
\* and get_role_stats reports 0 for the role.
C7_EmptyRead ==
    /\ (resp # None /\ AnsweredRequest.verb = "GET"
            /\ resp[1] = ZeroRowsReply(AnsweredRequest)) =>
        /\ out.kind = "envelope"
        /\ out.data = <<>>
        /\ CountRequested(AnsweredRequest) => out.count = Some(0)
        /\ (op = "get_all_profiles" /\ pc = "done") => ret = Returned(<< <<>>, 0 >>)
        /\ (op = "get_role_stats" /\ pc = "wait") => locals[1].count = Some(0)
        /\ (op = "get_role_stats" /\ pc = "done") => ret.value.total_institutions = 0
    /\ (op = "get_role_stats" /\ pc = "done" /\ ret.status = "returned"
            /\ locals[1].count = Some(0)) =>
        ret.value.total_users = 0

\* get_role_stats, both roles without a profile
C7_Witness ==
    /\ op = "get_role_stats"
    /\ pc = "done"
    /\ ret.status = "returned"
    /\ resp[1] = ZeroRowsReply(AnsweredRequest)
    /\ locals[1].count = Some(0)
    /\ ret.value.total_profiles = 0

\* C8: a staged insert, update or delete answered 2xx with an empty body or an
\* empty array returns an envelope with no rows and raises nothing; the service
\* then reports that nothing was affected.
C8_EmptyMutation ==
    (resp # None /\ AnsweredRequest.verb \in {"POST", "PATCH", "DELETE"}
        /\ resp[1].status \in 200..299 /\ resp[1].text \in {"", "[]"}) =>
        /\ out.kind = "envelope"
        /\ out.data = <<>>
        /\ ret.status = "returned"
        /\ op = "delete_profile" => ret.value = FALSE
        /\ op \in {"update_profile", "create_profile"} => ret.value = None

\* delete_profile on an id that matches nothing, answered with an empty body
C8_Witness ==
    /\ op = "delete_profile"
    /\ resp # None
    /\ resp[1].status = 200
    /\ resp[1].text = ""
    /\ ret = Returned(FALSE)

\* C9: every execute() attempts exactly one request, whether it ends in an
\* envelope, in a backend error or in a transport failure: the requests sent
\* by a call are as many as its execute() calls.
C9_OneRequestPerExecute ==
    pc \in {"wait", "done"} =>
        /\ attempts = 1
        /\ Len(wire) = Len(locals) + 1

\* the second execute() of get_role_stats fails in transport: two requests in all
C9_Witness ==
    /\ op = "get_role_stats"
    /\ pc = "done"
    /\ out = TransportError
    /\ Len(wire) = 2
    /\ attempts = 1

\* the exception classes in play and their base classes
BaseClasses(type) ==
    CASE type = "httpx.TransportError" -> {"Exception"}
      [] type = "json.JSONDecodeError" -> {"ValueError", "Exception"}
      [] OTHER -> {}

\* "except cls" catches an error of class type
Catches(cls, type) == cls = type \/ cls \in BaseClasses(type)

\* C10: the error of a transport failure is never of the class of a backend
\* error, and a handler exists that catches the one and not the other.
C10_TransportDistinct ==
    out.kind = "raised" =>
        /\ resp = None => (out.type # "Exception"
                            /\ Catches("httpx.TransportError", out.type))
        /\ (resp # None /\ resp[1].status >= 400) =>
               (out.type = "Exception"
                 /\ ~Catches("httpx.TransportError", out.type))

\* a transport failure while a POST is in flight
C10_Witness ==
    /\ pc = "done"
    /\ resp = None
    /\ wire[1].verb = "POST"
    /\ out.kind = "raised"
    /\ out.type = "httpx.TransportError"

\* C18: update_profile with an update in which every field is None issues no
\* PATCH: its only request is the read of the profile by id, and it returns
\* what that read finds; with at least one field not None it issues exactly
\* one request, a PATCH filtered by id=eq.<profile_id> whose body holds
\* exactly the fields that are not None.
C18_EmptyUpdateOnlyReads ==
    (op = "update_profile" /\ pc \in {"wait", "done"}) =>
        LET update_data == args.update_data
            given == {k \in DOMAIN update_data : update_data[k] # None}
            id == "eq." \o args.profile_id.hex
        IN  /\ Len(wire) = 1
            /\ wire[1].url = ClientBaseUrl \o "/profiles"
            /\ IF given = {}
               THEN /\ wire[1].verb = "GET"
                    /\ wire[1].json = None
                    /\ wire[1].params = [k \in {"select", "id"} |->
                                            IF k = "id" THEN id ELSE "*"]
                    /\ ret.status = "returned" =>
                          ret.value = (IF out.data = <<>> THEN None
                                       ELSE Some(out.data[1]))
               ELSE /\ wire[1].verb = "PATCH"
                    /\ wire[1].params = [k \in {"id"} |-> id]
                    /\ wire[1].json # None
                    /\ DOMAIN wire[1].json[1] = given
                    /\ \A k \in given :
                          wire[1].json[1][k] =
                              (IF k = "role" THEN "user" ELSE update_data[k][1])

\* an update with every field None was answered from the read by id alone
C18_Witness ==
    /\ op = "update_profile"
    /\ pc = "done"
    /\ \A k \in DOMAIN args.update_data : args.update_data[k] = None
    /\ Len(wire) = 1
    /\ wire[1].verb = "GET"
    /\ ret = Returned(Some(Row(1)))

-----------------------------------------------------------------------------
(* Properties of the builder, checked under SpecBuilder *)

\* the keys select, or_, order and limit write
ShapingKeys == {"select", "or", "order", "limit"}

\* the query parameter a filter call <<kind, value>> stands for
Encoded(f) == f[1] \o "." \o f[2]

HoldsLast(params, c) ==
    IF hist.last[c] = None
    THEN c \notin DOMAIN params
    ELSE c \in DOMAIN params /\ params[c] = Encoded(hist.last[c][1])

\* C4: the executed request holds, for each column, exactly the predicate of
\* the last eq/neq/ilike call on that column: earlier predicates on the column
\* are gone and no call on another column changes it; after filter calls only,
\* the parameters are exactly these predicates.
C4_LastFilterWins ==
    pc = "wait" =>
        /\ \A c \in Columns \ ShapingKeys : HoldsLast(wire[1].params, c)
        /\ ~hist.shaped =>
             /\ DOMAIN wire[1].params = {c \in Columns : hist.last[c] # None}
             /\ \A c \in Columns : HoldsLast(wire[1].params, c)

\* role was filtered more than once, last by neq, and email by eq
C4_Witness ==
    /\ pc = "wait"
    /\ hist.again
    /\ ~hist.shaped
    /\ hist.last["email"] = Some(<<"eq", "institution">>)
    /\ hist.last["order"] = None
    /\ hist.last["role"] = Some(<<"neq", "user">>)
    /\ wire[1].params = [c \in {"role", "email"} |->
                            IF c = "role" THEN "neq.user" ELSE "eq.institution"]

\* C5: when insert, update or delete was called on the builder before
\* execute(), the request carries Prefer: return=representation, whatever
\* other builder calls were made and in whatever order.
C5_ReturnRepresentationKept ==
    (pc = "wait" /\ hist.staged) =>
        /\ "Prefer" \in DOMAIN wire[1].headers
        /\ wire[1].headers["Prefer"] = "return=representation"

\* C11: the verb of the executed request is that of the last staged operation:
\* GET when none was staged, POST after insert, PATCH after update, DELETE
\* after delete; a POST or PATCH carries as JSON body exactly the payload given
\* to that last staging call, a GET or DELETE carries no body, also when an
\* insert or update was staged earlier on the same builder.
C11_VerbOfLastStaged ==
    pc = "wait" =>
        /\ Len(wire) = 1
        /\ IF hist.lastStaged = None
           THEN wire[1].verb = "GET" /\ wire[1].json = None
           ELSE LET staged == hist.lastStaged[1]
                IN  IF staged.kind = "insert"
                    THEN wire[1].verb = "POST" /\ wire[1].json = staged.data
                    ELSE IF staged.kind = "update"
                    THEN wire[1].verb = "PATCH" /\ wire[1].json = staged.data
                    ELSE wire[1].verb = "DELETE" /\ wire[1].json = None

\* a delete executed on a builder that still holds the payload of an insert
C11_Witness ==
    /\ pc = "wait"
    /\ hist.lastStaged = Some([kind |-> "delete", data |-> None])
    /\ q.body = Some([email |-> "a@b.com"])
    /\ wire[1].verb = "DELETE"
    /\ wire[1].json = None

\* the value select/or_/limit/order calls of the history leave under key k
ShapedParam(k) ==
    IF k \notin hist.calls THEN None
    ELSE IF k = "select" THEN Some("*")
    ELSE IF k = "or" THEN Some("(full_name.ilike.%a%,email.ilike.%a%)")
    ELSE IF k = "limit" THEN Some("10")
    ELSE Some("created_at." \o (IF hist.desc[1] THEN "desc" ELSE "asc"))

\* C12: the query parameters of the executed request are exactly the entries
\* accumulated by select/eq/neq/ilike/or_/order/limit; range(start, end)
\* leaves every query parameter unchanged, adds none, and is transmitted only
\* as the Range header (eq role user, order created_at desc, range 0 9 gives a
\* GET with role=eq.user, order=created_at.desc and Range: 0-9).
C12_RangeOnlyInHeader ==
    /\ [](pc = "wait" =>
            /\ wire[1].params = q.query_params
            /\ DOMAIN wire[1].params \subseteq Columns \cup ShapingKeys
            /\ \A k \in ShapingKeys \ Columns :
                    Get(wire[1].params, k) = ShapedParam(k)
            /\ hist.last["order"] = None =>
                    Get(wire[1].params, "order") = ShapedParam("order")
            /\ \A c \in Columns \ ShapingKeys : HoldsLast(wire[1].params, c)
            /\ Get(wire[1].headers, "Range") =
                    (IF "range" \in hist.calls THEN Some("0-9") ELSE None))
    /\ [][b_range => q'.query_params = q.query_params]_vars

\* eq('role', 'user'), order('created_at', desc=True), range(0, 9), execute()
C12_Witness ==
    /\ pc = "wait"
    /\ hist.calls = {"order", "range"}
    /\ hist.desc = Some(TRUE)
    /\ hist.lastStaged = None
    /\ hist.last["role"] = Some(<<"eq", "user">>)
    /\ hist.last["email"] = None
    /\ hist.last["order"] = None
    /\ wire[1].verb = "GET"
    /\ wire[1].url = ClientBaseUrl \o "/profiles"
    /\ wire[1].params = [k \in {"role", "order"} |->
                            IF k = "role" THEN "eq.user" ELSE "created_at.desc"]
    /\ wire[1].headers = Put(ClientHeaders, "Range", "0-9")

\* a filter call on column c
FilterCall(c) == eq_on(c) \/ neq_on(c) \/ ilike_on(c)

\* a select, or_, order or limit call
ShapingCall == b_select \/ b_or \/ b_order \/ b_limit

\* the builder call of the step leaves the query parameter k as it was
Kept(k) == Get(q'.query_params, k) = Get(q.query_params, k)

\* C19 as stated: for every column name, a filter call on the column changes
\* only that column's predicate and leaves projection, ordering, limit and
\* disjunction unchanged, and select/order/limit/or_ change no column's
\* predicate.
C19_Original ==
    [][ /\ \A c \in Columns :
              FilterCall(c) => \A k \in (Columns \cup ShapingKeys) \ {c} : Kept(k)
        /\ \A c \in Columns : FilterCall(c) => \A k \in ShapingKeys : Kept(k)
        /\ ShapingCall => \A c \in Columns : Kept(c) ]_vars

\* C19: for every column not named select, or, order or limit, a filter call
\* on the column changes only that column's query parameter, and select, or_,
\* order and limit leave the parameter of every such column unchanged; a
\* column named like one of the four shares its parameter with that call, the
\* later of the two calls overwriting the earlier.
C19_FiltersApartFromShaping ==
    [][ (pc = "build" /\ pc' = "build") =>
        /\ \A c \in Columns :
              \/ \A k \in (Columns \cup ShapingKeys) \ {c} : Kept(k)
              \/ ~FilterCall(c)
        /\ \/ \A c \in Columns \ ShapingKeys : Kept(c)
           \/ ~ShapingCall
        /\ \A c \in Columns \cap ShapingKeys :
              /\ FilterCall(c) =>
                    Get(q'.query_params, c) = Some(Encoded(hist'.last[c][1]))
              /\ (c = "order" /\ b_order) =>
                    Get(q'.query_params, c) = ShapedParam(c)' ]_vars

\* role and email were filtered on a builder that select, or_, order and
\* limit were called on, and all six parameters are held
C19_Witness ==
    /\ pc = "build"
    /\ {"select", "or", "order", "limit"} \subseteq hist.calls
    /\ hist.last["role"] # None
    /\ hist.last["email"] # None
    /\ hist.last["order"] = None
    /\ DOMAIN q.query_params = {"select", "or", "order", "limit", "role", "email"}
    /\ q.query_params["role"] = Encoded(hist.last["role"][1])
    /\ q.query_params["order"] = ShapedParam("order")[1]

-----------------------------------------------------------------------------
(* Properties of builders of the one client, checked under SpecShared *)

\* C13: builders obtained from the global client share no mutable state: under
\* every interleaving of calls on two builders, the client's default headers
\* keep their configured values, and the request each builder executes is the
\* one it would issue had it been built alone: the three default headers and
\* only the Prefer and Range values, and query parameters, set on itself.
C13_BuildersShareNothing ==
    /\ heap[ClientRef] = ClientHeaders
    /\ \A i \in Callers :
          /\ builders[i] # None => Mine(i) = alone[i][1]
          /\ sent[i] # None =>
                /\ sent[i][1] = Dispatch(alone[i][1])[1]
                /\ \A k \in DOMAIN ClientHeaders :
                      /\ k \in DOMAIN sent[i][1].headers
                      /\ sent[i][1].headers[k] = ClientHeaders[k]
                /\ DOMAIN sent[i][1].headers \subseteq
                      DOMAIN ClientHeaders \cup {"Prefer", "Range"}

\* caller 1 executed a counted select while caller 2 holds a builder with a
\* staged insert and a range
C13_Witness ==
    /\ sent[1] # None
    /\ sent[1][1].headers = Put(ClientHeaders, "Prefer", "count=exact")
    /\ builders[2] # None
    /\ Mine(2).headers =
          Put(Put(ClientHeaders, "Prefer", "return=representation"), "Range", "0-9")
    /\ Mine(2).method = "POST"

-----------------------------------------------------------------------------
(* Properties of registration under two concurrent requests, checked under SpecRace *)

\* C14: email is unique among registered users: under every interleaving of
\* concurrent POST /auth/register requests the table never holds two rows with
\* the same email, and every request either inserts its row (201) or is
\* answered 400 'Email already registered!'.
C14_EmailUnique ==
    /\ \A m, n \in 1..Len(users.rows) :
          m # n => users.rows[m].email # users.rows[n].email
    /\ \A i \in Handlers :
          (handlers[i].call = "register" /\ handlers[i].pc = "done") =>
              \/ handlers[i].answer[1].status = 201
              \/ /\ handlers[i].answer[1].status = 400
                 /\ handlers[i].answer[1].detail = "Email already registered!"

-----------------------------------------------------------------------------
(* Properties of the auth routes and services, checked under SpecAuth *)

\* C15: GET /auth/users succeeds for every combination of the optional
\* filters role, city and gender and every page and limit, and returns the
\* page of users with total, page and limit.
C15_UsersListSucceeds ==
    \A i \in Handlers :
        (handlers[i].call = "users" /\ handlers[i].pc = "done"
             /\ (handlers[i].raised # None => handlers[i].wire = <<>>)) =>
            /\ handlers[i].answer[1].status = 200
            /\ handlers[i].answer[1].data # None
            /\ handlers[i].answer[1].data[1].page = handlers[i].args.page
            /\ handlers[i].answer[1].data[1].limit = handlers[i].args.limit
            /\ Len(handlers[i].answer[1].data[1].users) <= handlers[i].args.limit

\* the user mappings a service method's return value holds
UsersReturned(r) ==
    IF r.method \in {"register_user", "get_user_by_email", "get_user_by_id"}
    THEN (IF r.value = None THEN {} ELSE {r.value[1]})
    ELSE IF r.method = "login_user"
    THEN (IF r.value = None THEN {} ELSE {r.value[1].user})
    ELSE IF r.method = "get_all_users"
    THEN {r.value[1][n] : n \in 1..Len(r.value[1])}
    ELSE {}

\* the user mappings the answer of a route holds
UsersAnswered(h) ==
    IF h.answer = None \/ h.answer[1].data = None THEN {}
    ELSE IF h.call = "login" THEN {h.answer[1].data[1].user}
    ELSE {h.answer[1].data[1]}

WithEmail(email) == SelectSeq(users.rows, LAMBDA row : row.email = email)

\* the login of handler h is entitled to a token: a row with the email
\* exists, the password verifies against its hash, and the row is not flagged
\* inactive (a row without the is_active column counts as active)
Entitled(h) ==
    /\ WithEmail(h.args.email) # <<>>
    /\ LET row == WithEmail(h.args.email)[1]
       IN  /\ VerifyPassword(h.args.password, row.password_hash)
           /\ "is_active" \in DOMAIN row => row.is_active

\* C17: login_user returns an access token only when a row with the email
\* exists, the password verifies against the stored hash and the user is
\* active; when one of the three fails it returns None, creates no token and
\* sends nothing but the read by email; on success the update of last_login
\* is sent before the token is returned.
C17_TokenOnlyWhenEntitled ==
    /\ [](\A i \in Handlers :
            LET h == handlers[i]
            IN  h.call = "login" =>
                  /\ h.wire[1].verb = "GET"
                  /\ h.wire[1].params =
                        [k \in {"select", "email"} |->
                            IF k = "select" THEN "*" ELSE "eq." \o h.args.email]
                  /\ (h.pc # "done" \/ h.raised # None) =>
                        /\ h.returns = <<>>
                        /\ h.answer = None \/ h.answer[1].status = 500
                  /\ (h.pc = "done" /\ h.raised = None /\ ~Entitled(h)) =>
                        /\ h.returns = <<[method |-> "login_user", value |-> None]>>
                        /\ h.answer[1].status = 401
                        /\ Len(h.wire) = 1
                  /\ (h.pc = "done" /\ h.raised = None /\ Entitled(h)) =>
                        /\ h.answer[1].status = 200
                        /\ h.returns[1].value = h.answer[1].data
                        /\ h.answer[1].data[1].access_token \in tokens
                        /\ h.answer[1].data[1].access_token.payload.sub =
                              WithEmail(h.args.email)[1].id
                        /\ Len(h.wire) = 2
                  /\ Len(h.wire) >= 2 =>
                        /\ Len(h.wire) = 2
                        /\ Entitled(h)
                        /\ h.wire[2].verb = "PATCH"
                        /\ h.wire[2].json = Some([last_login |-> Now])
                        /\ h.wire[2].params =
                              [k \in {"id"} |-> "eq." \o WithEmail(h.args.email)[1].id])
    /\ [][\A i \in Handlers :
            (handlers'[i].call = "login" /\ tokens' # tokens) =>
                /\ handlers[i].at = "update_last_login"
                /\ Len(handlers[i].wire) = 2
                /\ handlers'[i].answer # None
                /\ handlers'[i].answer[1].status = 200]_vars

\* a login was answered with a token after the read and the update of last_login
C17_Witness ==
    /\ handlers[1].call = "login"
    /\ handlers[1].pc = "done"
    /\ handlers[1].answer[1].status = 200
    /\ handlers[1].answer[1].data[1].access_token \in tokens
    /\ Len(handlers[1].wire) = 2
    /\ handlers[1].wire[2].verb = "PATCH"
    /\ users.rows[1].last_login = Now

\* C20: login and token authentication agree on who is active: when login_user
\* has handed out a token for a row, get_current_user with that token, not
\* expired, returns the user and raises neither 401 nor 403; and a row
\* get_current_user accepts is not refused as inactive by login_user.
C20_LoginAndTokenAgree ==
    \A i \in Handlers :
        LET h == handlers[i]
        IN  (h.call = "me" /\ h.pc = "done" /\ h.raised = None) =>
              /\ (h.args.token \in tokens /\ ~h.args.expired) =>
                    /\ h.answer[1].status = 200
                    /\ h.answer[1].data[1].id = h.args.token.payload.sub
              /\ h.answer[1].status = 200 =>
                    \A n \in 1..Len(users.rows) :
                        users.rows[n].id = h.answer[1].data[1].id =>
                            LoginRefusal([data |-> <<users.rows[n]>>], "pw1") = "none"

====
